---- MODULE Spec2Model ----
(***************************************************************************)
(* A model of the WebCrawler repository (src/crawler.py): the sliding      *)
(* window RateLimiter under concurrent callers, the DataHandler            *)
(* (generate_id, sanitize_data, is_safe_link, save_person_data) and        *)
(* EnhancedWebCrawler.search_person.                                       *)
(*                                                                         *)
(* Time.  Timestamps are kept relative to the current instant: a call of   *)
(* datetime.now() yields 0, and the passing of one clock tick (Tick)       *)
(* lowers every timestamp already held (in the deque, in a caller's local  *)
(* variable `now`, in the history of accepted calls) by one.  Comparisons   *)
(* between timestamps are therefore exactly those of the code.  A          *)
(* timestamp saturates at -Horizon; a caller holds a clock reading for at  *)
(* most MaxStale ticks, and Horizon = MaxStale + Minute + 1, so a          *)
(* saturated timestamp compares with every live `now - Minute` and         *)
(* `now - Second` as its true value would.                                 *)
(*                                                                         *)
(* Names.  The module-level names the DataHandler uses resolve (`os` is    *)
(* used by crawler.py and imported nowhere in it).  search_github,         *)
(* search_scholar and combine_info are called by search_person and         *)
(* defined nowhere; they are modelled after the design document and        *)
(* marked where they appear.                                               *)
(***************************************************************************)
EXTENDS Integers, Sequences, FiniteSets

\* ------------------------------------------------------------------ bounds
\* RateLimiter(requests_per_minute, burst_limit): the configured caps, scaled
\* down, the per-minute cap above the burst cap as in the defaults (60, 10).
burst_limit == 2
requests_per_minute == burst_limit + 1
\* timedelta(seconds=1): one clock tick.  timedelta(minutes=1), scaled down.
Second == 1
Minute == 2

\* The callers (threads) sharing one RateLimiter.
Threads == {"t1", "t2"}
\* A caller is preempted for at most MaxStale ticks between reading the clock
\* and leaving can_make_request.
MaxStale == Minute + 1
Horizon == MaxStale + Minute + 1

NoThread == "free"

\* The cells of a document a failing write leaves behind, at most.
MaxPartial == 1

VARIABLES
    requests,   \* RateLimiter.requests: the deque of timestamps, front first
    lock,       \* RateLimiter.lock: the holder, or NoThread
    pc,         \* each caller's position in the code
    now,        \* can_make_request's local `now` of each caller (0 outside a call)
    recorded,   \* timestamps the caller's current wait_if_needed has appended
    evicted,    \* history: timestamps of accepted calls popped from the deque,
                \* kept while a caller in mid-call holds a clock reading less
                \* than a Minute away (oldest first)
    files,      \* the storage directory: file name (person_id) -> file content
    data,       \* save_person_data's parameter `data` of each caller
    saving,     \* save_person_data's locals: person_id and the serialized
                \* sanitized_data
    ret,        \* the outcome of each caller's last DataHandler or crawler call
    stage,      \* where in search_person the caller is: "none" outside it
    person_data,\* search_person's local `person_data`
    infos,      \* search_person's linkedin_info, github_info, scholar_info
    gets        \* the GETs the caller's search_person has issued

limiterVars == <<requests, lock, now, recorded, evicted>>
storeVars == <<files, data, saving, ret>>
searchVars == <<stage, person_data, infos, gets>>
handlerVars == <<files, data, saving, ret, stage, person_data, infos, gets>>
vars == <<requests, lock, pc, now, recorded, evicted, files, data, saving, ret,
          stage, person_data, infos, gets>>

\* ------------------------------------------------------------ RateLimiter
\* The passing of one tick, seen from a timestamp.
Shift(ts) == IF ts - 1 < -Horizon THEN -Horizon ELSE ts - 1

\* Mutant: the eviction loop pops nothing.
Evicted_Never(q, minute_ago) == q

RECURSIVE Evicted(_, _)
\* while self.requests and self.requests[0] < minute_ago: popleft()
Evicted(q, minute_ago) ==
    IF q # <<>> /\ Head(q) < minute_ago THEN Evicted(Tail(q), minute_ago) ELSE q

\* Mutant: the per-minute check is off by one.
MinuteFull_OffByOne(q) == Len(q) > requests_per_minute

\* len(self.requests) >= self.requests_per_minute
MinuteFull(q) == Len(q) >= requests_per_minute

\* sum(1 for req in self.requests if req > last_second)
recent_requests(q, last_second) ==
    Cardinality({i \in 1..Len(q) : q[i] > last_second})

\* recent_requests >= self.burst_limit
BurstFull(q, t_now) == recent_requests(q, t_now - Second) >= burst_limit

\* The caller is between its clock read and its return from can_make_request.
InCall(t) == pc[t] \in {"lock", "evict", "minute", "burst", "append"}

\* The popped timestamps that still lie within a Minute of a clock reading held
\* by a caller in mid-call (the only timestamps a later append can join).
Relevant(h, nw, p) ==
    SelectSeq(h, LAMBDA e :
        \E t \in Threads :
            /\ p[t] \in {"lock", "evict", "minute", "burst", "append"}
            /\ e - nw[t] < Minute
            /\ nw[t] - e < Minute)

\* ------------------------------------------------------------ Python values
\* A str is the sequence of its characters.  None is PyNone where a str is
\* expected and NoneList where a list is: neither is a str or a list of strs,
\* whose characters are single.
PyNone == <<"None">>
NoneList == <<<<"NoneList">>>>
\* str(None), as an f-string formats it
text_None == <<"N", "o", "n", "e">>
ascii_uppercase == <<"A", "B", "C", "D", "E", "F", "G", "H", "I", "J", "K", "L", "M", "N", "O", "P", "Q", "R", "S", "T", "U", "V", "W", "X", "Y", "Z">>
ascii_lowercase == <<"a", "b", "c", "d", "e", "f", "g", "h", "i", "j", "k", "l", "m", "n", "o", "p", "q", "r", "s", "t", "u", "v", "w", "x", "y", "z">>

\* str.lower(), of one character and of a str
LowerChar(c) ==
    IF \E i \in 1..Len(ascii_uppercase) : ascii_uppercase[i] = c
    THEN ascii_lowercase[CHOOSE i \in 1..Len(ascii_uppercase) : ascii_uppercase[i] = c]
    ELSE c

Lowered(s) == [i \in 1..Len(s) |-> LowerChar(s[i])]

RECURSIVE FindFrom(_, _, _)
\* `sub in s`: the scan for the first occurrence of sub at or after position i
FindFrom(sub, s, i) ==
    IF i + Len(sub) - 1 > Len(s) THEN FALSE
    ELSE IF SubSeq(s, i, i + Len(sub) - 1) = sub THEN TRUE
    ELSE FindFrom(sub, s, i + 1)

Contains(sub, s) == FindFrom(sub, s, 1)

\* ------------------------------------------------------------ DataHandler
marker_linkedin == <<"l", "i", "n", "k", "e", "d", "i", "n", ".", "c", "o", "m", "/", "i", "n", "/">>
marker_github == <<"g", "i", "t", "h", "u", "b", ".", "c", "o", "m", "/">>
marker_scholar == <<"s", "c", "h", "o", "l", "a", "r", ".", "g", "o", "o", "g", "l", "e", ".", "c", "o", "m", "/">>
marker_twitter == <<"t", "w", "i", "t", "t", "e", "r", ".", "c", "o", "m", "/">>

\* Mutant: the LinkedIn marker without its /in/ path.
allowed_domains_AnyLinkedin ==
    <<SubSeq(marker_linkedin, 1, 13), marker_github, marker_scholar, marker_twitter>>

allowed_domains == <<marker_linkedin, marker_github, marker_scholar, marker_twitter>>

\* Mutant: the link is matched as written, not lower-cased.
is_safe_link_CaseSensitive(link) ==
    IF link = PyNone THEN "AttributeError"
    ELSE IF \E i \in 1..Len(allowed_domains) : Contains(allowed_domains[i], link)
         THEN "True" ELSE "False"

\* return any(domain in link.lower() for domain in allowed_domains)
\* "True" or "False", or the exception None.lower() raises.
is_safe_link(link) ==
    IF link = PyNone THEN "AttributeError"
    ELSE IF \E i \in 1..Len(allowed_domains) : Contains(allowed_domains[i], Lowered(link))
         THEN "True" ELSE "False"

\* datetime.now().isoformat(): some timestamp text, never None
isoformat_now == <<"isoformat">>

\* (data.public_links or [])
LinksOrEmpty(d) == IF d.public_links = NoneList THEN <<>> ELSE d.public_links

\* sanitize_data raises when is_safe_link does on one of the links.
sanitize_raises(d) ==
    \E i \in 1..Len(LinksOrEmpty(d)) : is_safe_link(LinksOrEmpty(d)[i]) = "AttributeError"

\* Mutant: the copy keeps every link.
sanitize_data_Unfiltered(d) ==
    [name |-> d.name,
     professional_title |-> d.professional_title,
     company |-> d.company,
     education |-> d.education,
     public_links |-> LinksOrEmpty(d),
     last_updated |-> isoformat_now]

\* The copy sanitize_data returns (when it does not raise).
sanitize_data(d) ==
    [name |-> d.name,
     professional_title |-> d.professional_title,
     company |-> d.company,
     education |-> d.education,
     public_links |-> SelectSeq(LinksOrEmpty(d), LAMBDA link : is_safe_link(link) = "True"),
     last_updated |-> isoformat_now]

\* f"{x}" of a str or None
FormatValue(x) == IF x = PyNone THEN text_None ELSE x

\* hashlib.sha256(identifier.encode()).hexdigest()[:12], taken to be free of
\* collisions on the identifiers of the model: the digest of s is s, tagged.
sha256_12(s) == <<"sha256">> \o s

\* Mutant: the identifier also covers the links.
generate_id_WithLinks(d) ==
    sha256_12(FormatValue(d.name) \o <<"_">> \o FormatValue(d.professional_title)
              \o <<"_">> \o FormatValue(d.company)
              \o <<"_">> \o <<IF LinksOrEmpty(d) = <<>> THEN "0" ELSE "1">>)

\* identifier = f"{data.name}_{data.professional_title}_{data.company}"
generate_id(d) ==
    sha256_12(FormatValue(d.name) \o <<"_">> \o FormatValue(d.professional_title)
              \o <<"_">> \o FormatValue(d.company))

\* json.dump(sanitized_data.__dict__, f): the document, one cell per string and
\* per bracket, None as null.
json_null == <<"null">>
json_open == <<"object{">>
json_close == <<"}object">>
json_list == <<"array[">>
json_end == <<"]array">>

json_value(x) == IF x = PyNone THEN json_null ELSE x
json_array(l) == IF l = NoneList THEN <<json_null>> ELSE <<json_list>> \o l \o <<json_end>>

json_dumps(r) ==
    <<json_open, json_value(r.name), json_value(r.professional_title), json_value(r.company)>>
    \o json_array(r.education) \o json_array(r.public_links)
    \o <<json_value(r.last_updated), json_close>>

\* The write of a whole document at offset 0 of a file opened with 'w': what
\* another writer put beyond the document's end since the open stays.
Overwritten(old, doc) ==
    IF Len(old) > Len(doc) THEN doc \o SubSeq(old, Len(doc) + 1, Len(old)) ELSE doc

\* The file system after file `id` is given content `c`.
WithFile(fs, id, c) == [k \in DOMAIN fs \cup {id} |-> IF k = id THEN c ELSE fs[k]]

\* Values of the callers' variables outside a call.
NoData == [name |-> PyNone]
NoSaving == [person_id |-> PyNone, doc |-> <<>>]
NoCall == [call |-> "none", status |-> "none", out |-> "none"]
NoInfo == [professional_title |-> PyNone, company |-> PyNone, public_links |-> <<>>]
NoInfos == [linkedin |-> NoInfo, github |-> NoInfo, scholar |-> NoInfo]
Returned(c, v) == [call |-> c, status |-> "returned", out |-> v]
Raised(c, e) == [call |-> c, status |-> "raised", out |-> e]

\* ------------------------------------------------------------ inputs
link_badsite == <<"b", "a", "d", "s", "i", "t", "e", ".", "c", "o", "m", "/", "j", "a", "n", "e">>
link_github == <<"g", "i", "t", "h", "u", "b", ".", "c", "o", "m", "/", "j", "a", "n", "e", "d", "o", "e">>
link_LINKEDIN == <<"L", "I", "N", "K", "E", "D", "I", "N", ".", "c", "o", "m", "/", "i", "n", "/", "j", "d", "o", "e">>
link_linkedin == <<"l", "i", "n", "k", "e", "d", "i", "n", ".", "c", "o", "m", "/", "i", "n", "/", "j", "d", "o", "e">>
link_company == <<"l", "i", "n", "k", "e", "d", "i", "n", ".", "c", "o", "m", "/", "c", "o", "m", "p", "a", "n", "y", "/", "a", "c", "m", "e">>
link_github_bare == <<"G", "i", "t", "H", "u", "b", ".", "c", "o", "m">>
link_twitter == <<"T", "w", "i", "t", "t", "e", "r", ".", "c", "o", "m", "/", "j", "d">>
link_scholar == <<"s", "c", "h", "o", "l", "a", "r", ".", "g", "o", "o", "g", "l", "e", ".", "c", "o", "m", "/", "c">>
link_empty == <<>>
name_empty == <<>>
name_jane == <<"J", "a", "n", "e", " ", "D", "o", "e">>
text_acme == <<"A", "c", "m", "e">>
text_other == <<"O", "t", "h", "e", "r">>
text_eng == <<"E", "n", "g">>
text_mit == <<"M", "I", "T">>

\* The references is_safe_link is called with.
InputLinks ==
    {link_badsite, link_github, link_LINKEDIN, link_linkedin, link_company,
     link_github_bare, link_twitter, link_scholar, link_empty, PyNone}

PersonData(n, title, co, edu, links, updated) ==
    [name |-> n, professional_title |-> title, company |-> co,
     education |-> edu, public_links |-> links, last_updated |-> updated]

\* The records generate_id and save_person_data are called with.
InputRecords ==
    {PersonData(name_jane, PyNone, PyNone, NoneList, <<link_badsite, link_github>>, PyNone),
     PersonData(name_jane, PyNone, PyNone, <<text_mit>>,
                <<link_LINKEDIN, link_company, link_twitter>>, isoformat_now),
     PersonData(name_jane, text_eng, text_acme, NoneList, NoneList, PyNone),
     PersonData(name_jane, text_eng, text_acme, <<text_mit>>, <<link_github, PyNone>>, PyNone),
     PersonData(name_jane, text_eng, text_other, NoneList, <<link_github_bare>>, PyNone)}

Init ==
    /\ requests = <<>>
    /\ lock = NoThread
    /\ pc = [t \in Threads |-> "idle"]
    /\ now = [t \in Threads |-> 0]
    /\ recorded = [t \in Threads |-> 0]
    /\ evicted = <<>>
    /\ files = <<>>
    /\ data = [t \in Threads |-> NoData]
    /\ saving = [t \in Threads |-> NoSaving]
    /\ ret = [t \in Threads |-> NoCall]
    /\ stage = [t \in Threads |-> "none"]
    /\ person_data = [t \in Threads |-> NoData]
    /\ infos = [t \in Threads |-> NoInfos]
    /\ gets = [t \in Threads |-> 0]

\* A caller invokes wait_if_needed.
CallWaitIfNeeded(t) ==
    /\ pc[t] = "idle"
    /\ pc' = [pc EXCEPT ![t] = "read"]
    /\ UNCHANGED <<requests, lock, now, recorded, evicted>>
    /\ UNCHANGED handlerVars

\* now = datetime.now(); minute_ago = now - timedelta(minutes=1)
ReadClock(t) ==
    /\ pc[t] = "read"
    /\ now' = [now EXCEPT ![t] = 0]
    /\ pc' = [pc EXCEPT ![t] = "lock"]
    /\ UNCHANGED <<requests, lock, recorded, evicted>>
    /\ UNCHANGED handlerVars

\* with self.lock:
AcquireLock(t) ==
    /\ pc[t] = "lock"
    /\ lock = NoThread
    /\ lock' = t
    /\ pc' = [pc EXCEPT ![t] = "evict"]
    /\ UNCHANGED <<requests, now, recorded, evicted>>
    /\ UNCHANGED handlerVars

\* the eviction loop
Evict(t) ==
    /\ pc[t] = "evict"
    /\ requests' = Evicted(requests, now[t] - Minute)
    /\ evicted' = Relevant(
           evicted \o SubSeq(requests, 1, Len(requests) - Len(requests')), now, pc)
    /\ pc' = [pc EXCEPT ![t] = "minute"]
    /\ UNCHANGED <<lock, now, recorded>>
    /\ UNCHANGED handlerVars

\* Mutant: the rejection returns with the lock still held.
Rejected_KeepsLock(t) ==
    /\ lock' = lock
    /\ pc' = [pc EXCEPT ![t] = "sleep"]
    /\ now' = [now EXCEPT ![t] = 0]
    /\ evicted' = Relevant(evicted, now, pc')
    /\ UNCHANGED <<requests, recorded>>

\* can_make_request returns False into wait_if_needed's loop, releasing the
\* lock: `while not self.can_make_request(): time.sleep(0.1)`
Rejected(t) ==
    /\ lock' = NoThread
    /\ pc' = [pc EXCEPT ![t] = "sleep"]
    /\ now' = [now EXCEPT ![t] = 0]
    /\ evicted' = Relevant(evicted, now, pc')
    /\ UNCHANGED <<requests, recorded>>

\* if len(self.requests) >= self.requests_per_minute: return False
CheckMinute(t) ==
    /\ pc[t] = "minute"
    /\ UNCHANGED handlerVars
    /\ \/ /\ MinuteFull(requests)
          /\ Rejected(t)
       \/ /\ ~MinuteFull(requests)
          /\ pc' = [pc EXCEPT ![t] = "burst"]
          /\ UNCHANGED <<requests, lock, now, recorded, evicted>>

\* if recent_requests >= self.burst_limit: return False
CheckBurst(t) ==
    /\ pc[t] = "burst"
    /\ UNCHANGED handlerVars
    /\ \/ /\ BurstFull(requests, now[t])
          /\ Rejected(t)
       \/ /\ ~BurstFull(requests, now[t])
          /\ pc' = [pc EXCEPT ![t] = "append"]
          /\ UNCHANGED <<requests, lock, now, recorded, evicted>>

\* self.requests.append(now); return True: wait_if_needed's loop ends.
Accept(t) ==
    /\ pc[t] = "append"
    /\ requests' = Append(requests, now[t])
    /\ recorded' = [recorded EXCEPT ![t] = @ + 1]
    /\ lock' = NoThread
    /\ pc' = [pc EXCEPT ![t] = "done"]
    /\ now' = [now EXCEPT ![t] = 0]
    /\ UNCHANGED evicted
    /\ UNCHANGED handlerVars

\* time.sleep(0.1) is over: the loop calls can_make_request again.
Wake(t) ==
    /\ pc[t] = "sleep"
    /\ pc' = [pc EXCEPT ![t] = "read"]
    /\ UNCHANGED <<requests, lock, now, recorded, evicted>>
    /\ UNCHANGED handlerVars

\* wait_if_needed has returned to its caller.
ReturnWait(t) ==
    /\ pc[t] = "done"
    /\ stage[t] = "none"
    /\ pc' = [pc EXCEPT ![t] = "idle"]
    /\ recorded' = [recorded EXCEPT ![t] = 0]
    /\ evicted' = Relevant(evicted, now, pc')
    /\ UNCHANGED <<requests, lock, now>>
    /\ UNCHANGED handlerVars

\* One clock tick passes.
Tick ==
    /\ \A t \in Threads : InCall(t) => now[t] > -MaxStale
    /\ requests' = [i \in 1..Len(requests) |-> Shift(requests[i])]
    /\ now' = [t \in Threads |-> IF InCall(t) THEN Shift(now[t]) ELSE now[t]]
    /\ evicted' = [i \in 1..Len(evicted) |-> Shift(evicted[i])]
    /\ UNCHANGED <<lock, pc, recorded>>
    /\ UNCHANGED handlerVars

\* ------------------------------------------------------------ DataHandler calls
\* A caller invokes is_safe_link(link); the call computes its result in one step.
IsSafeLinkCall(t, link) ==
    /\ pc[t] = "idle"
    /\ pc' = [pc EXCEPT ![t] = "called"]
    /\ ret' = [ret EXCEPT ![t] =
                 IF is_safe_link(link) = "AttributeError"
                 THEN Raised("is_safe_link", "AttributeError")
                 ELSE Returned("is_safe_link", is_safe_link(link))]
    /\ data' = [data EXCEPT ![t] = [link |-> link]]
    /\ UNCHANGED <<files, saving>>
    /\ UNCHANGED limiterVars
    /\ UNCHANGED searchVars

\* A caller invokes generate_id(d).
GenerateIdCall(t, d) ==
    /\ pc[t] = "idle"
    /\ pc' = [pc EXCEPT ![t] = "called"]
    /\ ret' = [ret EXCEPT ![t] = Returned("generate_id", generate_id(d))]
    /\ data' = [data EXCEPT ![t] = d]
    /\ UNCHANGED <<files, saving>>
    /\ UNCHANGED limiterVars
    /\ UNCHANGED searchVars

\* save_person_data(d) up to the open: person_id = self.generate_id(data);
\* sanitized_data = self.sanitize_data(data); file_path = ...
BeginSave(t, d) ==
    /\ data' = [data EXCEPT ![t] = d]
    /\ \/ /\ sanitize_raises(d)
          /\ ret' = [ret EXCEPT ![t] = Raised("save_person_data", "AttributeError")]
          /\ pc' = [pc EXCEPT ![t] = "called"]
          /\ UNCHANGED saving
       \/ /\ ~sanitize_raises(d)
          /\ saving' = [saving EXCEPT ![t] =
                          [person_id |-> generate_id(d), doc |-> json_dumps(sanitize_data(d))]]
          /\ pc' = [pc EXCEPT ![t] = "open"]
          /\ UNCHANGED ret
    /\ UNCHANGED files
    /\ UNCHANGED limiterVars

\* A caller invokes save_person_data(d).
SaveCall(t, d) ==
    /\ pc[t] = "idle"
    /\ BeginSave(t, d)
    /\ UNCHANGED searchVars

\* Mutant: the open keeps the content of an existing file (mode 'r+').
SaveOpen_NoTruncate(t) ==
    /\ pc[t] = "open"
    /\ files' = IF saving[t].person_id \in DOMAIN files THEN files
                ELSE WithFile(files, saving[t].person_id, <<>>)
    /\ pc' = [pc EXCEPT ![t] = "dump"]
    /\ UNCHANGED <<data, saving, ret>>
    /\ UNCHANGED limiterVars
    /\ UNCHANGED searchVars

\* with open(file_path, 'w') as f: the file is created or truncated, or the
\* open fails.
SaveOpen(t) ==
    /\ pc[t] = "open"
    /\ \/ /\ files' = WithFile(files, saving[t].person_id, <<>>)
          /\ pc' = [pc EXCEPT ![t] = "dump"]
          /\ UNCHANGED ret
       \/ /\ ret' = [ret EXCEPT ![t] = Raised("save_person_data", "OSError")]
          /\ pc' = [pc EXCEPT ![t] = "called"]
          /\ UNCHANGED files
    /\ UNCHANGED <<data, saving>>
    /\ UNCHANGED limiterVars
    /\ UNCHANGED searchVars

\* json.dump(sanitized_data.__dict__, f) and the close that writes the buffered
\* document out; return person_id.  Or the write fails, and what was written
\* before the failure (a proper prefix of the document, of at most MaxPartial
\* cells, possibly nothing) stays.
SaveDump(t) ==
    /\ pc[t] = "dump"
    /\ \/ /\ files' = WithFile(files, saving[t].person_id,
                               Overwritten(files[saving[t].person_id], saving[t].doc))
          /\ ret' = [ret EXCEPT ![t] = Returned("save_person_data", saving[t].person_id)]
       \/ /\ ret' = [ret EXCEPT ![t] = Raised("save_person_data", "OSError")]
          /\ \E k \in 0..MaxPartial :
                files' = WithFile(files, saving[t].person_id,
                                  Overwritten(files[saving[t].person_id],
                                              SubSeq(saving[t].doc, 1, k)))
    /\ pc' = [pc EXCEPT ![t] = "called"]
    /\ UNCHANGED <<data, saving>>
    /\ UNCHANGED limiterVars
    /\ UNCHANGED searchVars

\* The caller has taken the outcome of its call.
Return(t) ==
    /\ pc[t] = "called"
    /\ stage[t] = "none"
    /\ pc' = [pc EXCEPT ![t] = "idle"]
    /\ data' = [data EXCEPT ![t] = NoData]
    /\ saving' = [saving EXCEPT ![t] = NoSaving]
    /\ ret' = [ret EXCEPT ![t] = NoCall]
    /\ person_data' = [person_data EXCEPT ![t] = NoData]
    /\ infos' = [infos EXCEPT ![t] = NoInfos]
    /\ gets' = [gets EXCEPT ![t] = 0]
    /\ recorded' = [recorded EXCEPT ![t] = 0]
    /\ UNCHANGED <<files, stage>>
    /\ UNCHANGED <<requests, lock, now, evicted>>

\* The callers of the DataHandler: one at a time saves.
Savers == {"t1"}

StoreNext ==
    \/ \E t \in Threads, link \in InputLinks : IsSafeLinkCall(t, link)
    \/ \E t \in Threads, d \in InputRecords : GenerateIdCall(t, d)
    \/ \E t \in Savers, d \in InputRecords : SaveCall(t, d)
    \/ \E t \in Threads : SaveOpen(t)
    \/ \E t \in Threads : SaveDump(t)
    \/ \E t \in Threads : Return(t)

StoreSpec == Init /\ [][StoreNext]_vars

\* Records whose identity fields hold the separator '_' or the text "None".
text_J == <<"J">>
text_J_D == <<"J", "_", "D">>
text_D == <<"D">>
text_D_E == <<"D", "_", "E">>
text_E == <<"E">>

KeyRecords ==
    {PersonData(n, title, co, NoneList, NoneList, PyNone) :
        n \in {text_J, text_J_D},
        title \in {PyNone, text_None, text_D, text_D_E, text_E},
        co \in {PyNone, text_E}}

\* generate_id called on those records.
IdNext ==
    \/ \E t \in Threads, d \in KeyRecords : GenerateIdCall(t, d)
    \/ \E t \in Threads : Return(t)

IdSpec == Init /\ [][IdNext]_vars

\* The DataHandler with every caller saving: saves overlap.
ConcurrentSaveNext ==
    \/ \E t \in Threads, d \in InputRecords : SaveCall(t, d)
    \/ \E t \in Threads : SaveOpen(t)
    \/ \E t \in Threads : SaveDump(t)
    \/ \E t \in Threads : Return(t)

ConcurrentSaveSpec == Init /\ [][ConcurrentSaveNext]_vars

LimiterStep(t) ==
    \/ ReadClock(t)
    \/ AcquireLock(t)
    \/ Evict(t)
    \/ CheckMinute(t)
    \/ CheckBurst(t)
    \/ Accept(t)
    \/ Wake(t)

Next ==
    \/ \E t \in Threads : CallWaitIfNeeded(t)
    \/ \E t \in Threads : LimiterStep(t)
    \/ \E t \in Threads : ReturnWait(t)
    \/ Tick

Spec == Init /\ [][Next]_vars

\* ------------------------------------------------------------ EnhancedWebCrawler
\* parse_linkedin_results over the hrefs of the page's <a> elements, '' for an
\* element without one: the first href whose text has 'linkedin.com/in/'.
parse_linkedin_results(hrefs) ==
    LET public_profiles ==
            SelectSeq(hrefs, LAMBDA h : Contains(marker_linkedin, FormatValue(h)))
    IN  IF public_profiles # <<>>
        THEN [NoInfo EXCEPT !.public_links = SubSeq(public_profiles, 1, 1)]
        ELSE NoInfo

\* What self.session.get does: it raises, or answers with a status and a page.
Response(raises, status, hrefs) == [raises |-> raises, status |-> status, hrefs |-> hrefs]

LinkedinResponses ==
    {Response(TRUE, 0, <<>>),
     Response(FALSE, 403, <<link_linkedin>>),
     Response(FALSE, 200, <<link_badsite>>),
     Response(FALSE, 200, <<link_company, link_empty, link_linkedin, link_github>>)}

\* search_linkedin after the GET: the parsed page on status 200, else {}.
search_linkedin_result(resp) ==
    IF resp.status = 200 THEN parse_linkedin_results(resp.hrefs) ELSE NoInfo

\* search_github and search_scholar are called by search_person and defined
\* nowhere in the sources; they are taken as the per-source fetch the design
\* describes: one permit, one GET, and fields and at most one candidate link on
\* success, nothing on a non-success status.
SourceResult(raises, status, info) == [raises |-> raises, status |-> status, info |-> info]

GithubResponses ==
    {SourceResult(TRUE, 0, NoInfo),
     SourceResult(FALSE, 200,
        [professional_title |-> PyNone, company |-> text_acme,
         public_links |-> <<link_github>>])}

ScholarResponses ==
    {SourceResult(TRUE, 0, NoInfo),
     SourceResult(FALSE, 200,
        [professional_title |-> text_eng, company |-> text_other,
         public_links |-> <<link_badsite>>])}

source_result(resp) == IF resp.status = 200 THEN resp.info ELSE NoInfo

\* Mutant: a later source overwrites a scalar field an earlier one has set.
merge_info_LastWins(pd, info) ==
    [pd EXCEPT
        !.professional_title = IF info.professional_title = PyNone THEN @
                               ELSE info.professional_title,
        !.company = IF info.company = PyNone THEN @ ELSE info.company,
        !.public_links =
            IF info.public_links = <<>> THEN @
            ELSE (IF @ = NoneList THEN <<>> ELSE @) \o SubSeq(info.public_links, 1, 1)]

\* combine_info, called by search_person and defined nowhere in the sources, is
\* taken as the merge the design describes: a scalar field is set only while it
\* is unset, and the first candidate link of each source is appended.
merge_info(pd, info) ==
    [pd EXCEPT
        !.professional_title = IF @ = PyNone THEN info.professional_title ELSE @,
        !.company = IF @ = PyNone THEN info.company ELSE @,
        !.public_links =
            IF info.public_links = <<>> THEN @
            ELSE (IF @ = NoneList THEN <<>> ELSE @) \o SubSeq(info.public_links, 1, 1)]

combine_info(pd, i) == merge_info(merge_info(merge_info(pd, i.linkedin), i.github), i.scholar)

\* The names search_person is called with.
InputNames == {name_jane, name_empty}

\* search_person(name): self.rate_limiter.wait_if_needed() for the search as a
\* whole.  (person_data = PersonData(name=name) follows the wait; it is held
\* from the call on, where it carries `name`.)
SearchPersonCall(t, name) ==
    /\ pc[t] = "idle"
    /\ pc' = [pc EXCEPT ![t] = "read"]
    /\ stage' = [stage EXCEPT ![t] = "umbrella"]
    /\ person_data' = [person_data EXCEPT ![t] =
                          PersonData(name, PyNone, PyNone, NoneList, NoneList, PyNone)]
    /\ UNCHANGED <<infos, gets>>
    /\ UNCHANGED storeVars
    /\ UNCHANGED limiterVars

\* Mutant: search_linkedin goes to its GET without a permit of its own.
AfterUmbrella_NoPermit(t) ==
    /\ pc[t] = "done"
    /\ stage[t] = "umbrella"
    /\ pc' = pc
    /\ stage' = [stage EXCEPT ![t] = "linkedin"]
    /\ UNCHANGED <<person_data, infos, gets>>
    /\ UNCHANGED storeVars
    /\ UNCHANGED limiterVars

\* The umbrella permit is held: search_linkedin(name) begins with its own
\* self.rate_limiter.wait_if_needed().
AfterUmbrella(t) ==
    /\ pc[t] = "done"
    /\ stage[t] = "umbrella"
    /\ pc' = [pc EXCEPT ![t] = "read"]
    /\ stage' = [stage EXCEPT ![t] = "linkedin"]
    /\ UNCHANGED <<person_data, infos, gets>>
    /\ UNCHANGED storeVars
    /\ UNCHANGED limiterVars

\* An exception leaves search_person, which catches nothing.
SearchRaises(t, e) ==
    /\ ret' = [ret EXCEPT ![t] = Raised("search_person", e)]
    /\ pc' = [pc EXCEPT ![t] = "called"]
    /\ stage' = [stage EXCEPT ![t] = "none"]

\* search_linkedin: response = self.session.get(search_url), then the parse;
\* search_github(name) follows.
LinkedinGet(t) ==
    /\ pc[t] = "done"
    /\ stage[t] = "linkedin"
    /\ gets' = [gets EXCEPT ![t] = @ + 1]
    /\ \E resp \in LinkedinResponses :
          \/ /\ resp.raises
             /\ SearchRaises(t, "ConnectionError")
             /\ UNCHANGED infos
          \/ /\ ~resp.raises
             /\ infos' = [infos EXCEPT ![t].linkedin = search_linkedin_result(resp)]
             /\ pc' = [pc EXCEPT ![t] = "read"]
             /\ stage' = [stage EXCEPT ![t] = "github"]
             /\ UNCHANGED ret
    /\ UNCHANGED <<files, data, saving, person_data>>
    /\ UNCHANGED limiterVars

\* search_github's GET; search_scholar(name) follows.
GithubGet(t) ==
    /\ pc[t] = "done"
    /\ stage[t] = "github"
    /\ gets' = [gets EXCEPT ![t] = @ + 1]
    /\ \E resp \in GithubResponses :
          \/ /\ resp.raises
             /\ SearchRaises(t, "ConnectionError")
             /\ UNCHANGED infos
          \/ /\ ~resp.raises
             /\ infos' = [infos EXCEPT ![t].github = source_result(resp)]
             /\ pc' = [pc EXCEPT ![t] = "read"]
             /\ stage' = [stage EXCEPT ![t] = "scholar"]
             /\ UNCHANGED ret
    /\ UNCHANGED <<files, data, saving, person_data>>
    /\ UNCHANGED limiterVars

\* search_scholar's GET; combine_info follows.
ScholarGet(t) ==
    /\ pc[t] = "done"
    /\ stage[t] = "scholar"
    /\ gets' = [gets EXCEPT ![t] = @ + 1]
    /\ \E resp \in ScholarResponses :
          \/ /\ resp.raises
             /\ SearchRaises(t, "ConnectionError")
             /\ UNCHANGED infos
          \/ /\ ~resp.raises
             /\ infos' = [infos EXCEPT ![t].scholar = source_result(resp)]
             /\ pc' = [pc EXCEPT ![t] = "combine"]
             /\ stage' = [stage EXCEPT ![t] = "combine"]
             /\ UNCHANGED ret
    /\ UNCHANGED <<files, data, saving, person_data>>
    /\ UNCHANGED limiterVars

\* self.combine_info(person_data, linkedin_info, github_info, scholar_info);
\* self.data_handler.save_person_data(person_data), up to its open
CombineAndSave(t) ==
    /\ pc[t] = "combine"
    /\ person_data' = [person_data EXCEPT ![t] = combine_info(person_data[t], infos[t])]
    /\ BeginSave(t, combine_info(person_data[t], infos[t]))
    /\ stage' = [stage EXCEPT ![t] = "save"]
    /\ UNCHANGED <<infos, gets>>

\* save_person_data is over: its exception leaves search_person too, else
\* `return person_data`
SearchReturn(t) ==
    /\ pc[t] = "called"
    /\ stage[t] = "save"
    /\ ret' = [ret EXCEPT ![t] =
                 IF ret[t].status = "raised"
                 THEN Raised("search_person", ret[t].out)
                 ELSE Returned("search_person", person_data[t])]
    /\ stage' = [stage EXCEPT ![t] = "none"]
    /\ UNCHANGED <<pc, files, data, saving, person_data, infos, gets>>
    /\ UNCHANGED limiterVars

SearchStep(t) ==
    \/ AfterUmbrella(t)
    \/ LinkedinGet(t)
    \/ GithubGet(t)
    \/ ScholarGet(t)
    \/ CombineAndSave(t)
    \/ SaveOpen(t)
    \/ SaveDump(t)
    \/ SearchReturn(t)
    \/ Return(t)

\* The threads that run searches.
Searchers == {"t1"}

SearchNext ==
    \/ \E t \in Searchers, name \in InputNames : SearchPersonCall(t, name)
    \/ \E t \in Searchers : LimiterStep(t)
    \/ \E t \in Searchers : SearchStep(t)
    \/ Tick

SearchSpec == Init /\ [][SearchNext]_vars

\* ------------------------------------------------------------ C1, C2
\* Every accepted timestamp still known exactly: the deque's and the popped
\* ones kept, but for those saturated at -Horizon.
Known == SelectSeq(requests \o evicted, LAMBDA e : e > -Horizon)

InWindow(T, width) ==
    Cardinality({i \in 1..Len(Known) : Known[i] > T - width /\ Known[i] <= T})

\* C1: in any trailing 60-second window (T - Minute, T] the accepted calls'
\* recorded timestamps number at most requests_per_minute.
C1_MinuteCap == \A T \in (1 - Horizon)..0 : InWindow(T, Minute) <= requests_per_minute

\* C2: in any trailing 1-second window (T - Second, T] the accepted calls'
\* recorded timestamps number at most burst_limit.
C2_BurstCap == \A T \in (1 - Horizon)..0 : InWindow(T, Second) <= burst_limit

\* ------------------------------------------------------------ C3
\* Fair scheduling and an advancing clock: a caller that can take a step
\* eventually takes one, a caller waiting for the lock eventually gets it, a
\* returned call eventually leaves, and time passes.
Fairness ==
    /\ WF_vars(Tick)
    /\ \A t \in Threads : WF_vars(LimiterStep(t))
    /\ \A t \in Threads : SF_vars(AcquireLock(t))
    /\ \A t \in Threads : WF_vars(ReturnWait(t))

LiveSpec == Init /\ [][Next]_vars /\ Fairness

\* The caller is inside wait_if_needed and has not been accepted.
Blocked(t) == pc[t] \in {"read", "lock", "evict", "minute", "burst", "append", "sleep"}

\* A can_make_request call made at this instant would be accepted.
Capacity ==
    LET q == Evicted(requests, 0 - Minute)
    IN  ~MinuteFull(q) /\ ~BurstFull(q, 0)

\* wait_if_needed returns only after exactly one timestamp of its own.
ReturnsWithOnePermit == \A t \in Threads : pc[t] = "done" => recorded[t] = 1

\* C3 as claimed: once capacity exists a blocked caller eventually returns, other
\* callers acquiring permits or not, and it returns with exactly one timestamp
\* recorded.
C3_ReturnsOnceCapacity ==
    /\ \A t \in Threads : (Blocked(t) /\ Capacity) ~> (pc[t] = "done")
    /\ []ReturnsWithOnePermit

\* C3 amended: a blocked caller always eventually returns if from some point on
\* no other caller is accepted; it returns with exactly one timestamp recorded.
C3_ReturnsUnlessOvertaken ==
    /\ \A t \in Threads :
          (<>[][\A u \in Threads \ {t} : ~Accept(u)]_vars)
             => (Blocked(t) ~> (pc[t] = "done"))
    /\ []ReturnsWithOnePermit

\* A caller returns with the window's last permit while the other one sleeps.
C3_Witness ==
    \E t \in Threads, u \in Threads :
        /\ pc[t] = "done" /\ recorded[t] = 1
        /\ pc[u] = "sleep"
        /\ Len(requests) = requests_per_minute

SearchOver(t) == pc[t] = "called" /\ ret[t].call = "search_person"

\* C4: a source lookup that raises never aborts search_person: the exception of
\* a source's GET is not what the search ends with, the search returns a record.
C4_SourceFailureNeverAborts ==
    \A t \in Threads :
        (SearchOver(t) /\ ret[t].status = "raised") => ret[t].out # "ConnectionError"

\* ------------------------------------------------------------ C5, C8, C9, C10
\* The four allowlist markers the claims name.
ClaimedMarkers == {marker_linkedin, marker_github, marker_scholar, marker_twitter}

\* The lower-cased reference contains one of the claimed markers as a substring.
HasMarker(link) ==
    \E m \in ClaimedMarkers :
        \E i \in 1..(Len(link) - Len(m) + 1) :
            \A k \in 1..Len(m) : LowerChar(link[i + k - 1]) = m[k]

\* The subsequence, in order, of the links that carry a marker.
RECURSIVE SafeSubsequence(_)
SafeSubsequence(links) ==
    IF links = <<>> THEN <<>>
    ELSE IF HasMarker(Head(links)) THEN <<Head(links)>> \o SafeSubsequence(Tail(links))
    ELSE SafeSubsequence(Tail(links))

\* json.load of a stored document, as far as its public_links: the cells between
\* the brackets of the second array (education is null or the first array).
FirstEnd(doc, from) ==
    CHOOSE j \in from..Len(doc) :
        doc[j] = json_end /\ \A k \in from..(j - 1) : doc[k] # json_end

StoredLinks(doc) ==
    LET linksAt == IF doc[5] = json_null THEN 6 ELSE FirstEnd(doc, 5) + 1
    IN  SubSeq(doc, linksAt + 1, FirstEnd(doc, linksAt) - 1)

SaveReturned(t) ==
    pc[t] = "called" /\ ret[t].call = "save_person_data" /\ ret[t].status = "returned"

\* C5: after a save returns, the stored record's public_links are exactly the
\* input's links that carry a marker, in their order; and no cell of any stored
\* file is one of the references without a marker.
C5_StoredLinksAreTheSafeOnes ==
    /\ \A t \in Threads :
          SaveReturned(t) =>
             StoredLinks(files[ret[t].out]) =
                SafeSubsequence(IF data[t].public_links = NoneList THEN <<>>
                                ELSE data[t].public_links)
    /\ \A id \in DOMAIN files : \A i \in 1..Len(files[id]) :
          files[id][i] \in InputLinks \ {PyNone} => HasMarker(files[id][i])

\* ["badsite.com/jane", "github.com/janedoe"] was saved as ["github.com/janedoe"].
C5_Witness ==
    \E t \in Threads :
        /\ SaveReturned(t)
        /\ data[t].public_links = <<link_badsite, link_github>>
        /\ StoredLinks(files[ret[t].out]) = <<link_github>>

\* No save_person_data is between its open and its return.
NoSaveInProgress == \A t \in Threads : pc[t] \notin {"open", "dump"}

\* The documents save_person_data writes under identifier id.
SaveableRecords == {r \in InputRecords : ~sanitize_raises(r)}
IdOfRecord == [r \in SaveableRecords |-> generate_id(r)]
DocOfRecord == [r \in SaveableRecords |-> json_dumps(sanitize_data(r))]
SanitizedDocs(id) ==
    {DocOfRecord[r] : r \in {r \in SaveableRecords : IdOfRecord[r] = id}}

\* p is the start of doc and not all of it.
ProperPrefix(p, doc) == Len(p) < Len(doc) /\ p = SubSeq(doc, 1, Len(p))

\* The save that has just returned wrote, under the identifier it returns, the
\* sanitized form of its record and nothing of the record stored before.
LastSaveStored ==
    \A t \in Threads :
        SaveReturned(t) =>
            /\ ret[t].out = generate_id(data[t])
            /\ files[ret[t].out] = json_dumps(sanitize_data(data[t]))

\* A step changes the file of an identifier only within a save to it.
OtherIdentifiersKept ==
    [][\A id \in DOMAIN files :
          /\ id \in DOMAIN files'
          /\ files'[id] # files[id] =>
                \E t \in Threads : pc[t] \in {"open", "dump"} /\ saving[t].person_id = id]_vars

C12_EmptyNameFailsFast ==
    \A t \in Threads :
        (stage[t] # "none" /\ person_data[t].name = name_empty) =>
            /\ recorded[t] = 0
            /\ gets[t] = 0
            /\ pc[t] \notin {"open", "dump"}

RECURSIVE FirstSupplied(_)
\* The first value of a sequence that is not None, None when there is none.
FirstSupplied(values) ==
    IF values = <<>> THEN PyNone
    ELSE IF Head(values) # PyNone THEN Head(values)
    ELSE FirstSupplied(Tail(values))

\* The caller's search_person has merged the sources' answers.
Merged(t) == stage[t] = "save"

\* C13: after the merge each scalar field holds the value of the first source,
\* in the order linkedin, github, scholar, that supplied one: a later source
\* does not overwrite it, and a source sets a field only while it is unset.
C13_FirstWriterWins ==
    \A t \in Threads :
        Merged(t) =>
            /\ person_data[t].company =
                  FirstSupplied(<<infos[t].linkedin.company, infos[t].github.company,
                                  infos[t].scholar.company>>)
            /\ person_data[t].professional_title =
                  FirstSupplied(<<infos[t].linkedin.professional_title,
                                  infos[t].github.professional_title,
                                  infos[t].scholar.professional_title>>)

\* github supplied company "Acme", scholar "Other" and the title: the merged
\* record has company "Acme" and scholar's title.
C13_Witness ==
    \E t \in Threads :
        /\ Merged(t)
        /\ infos[t].github.company = text_acme
        /\ infos[t].scholar.company = text_other
        /\ infos[t].github.professional_title = PyNone
        /\ person_data[t].company = text_acme
        /\ person_data[t].professional_title = text_eng

\* C14: the clock read, the eviction, both checks and the append are one critical
\* section: no other caller appends between a caller's clock read and its
\* decision, so the `now` a caller is about to append is not older than any
\* timestamp already in the window.
C14_OneCriticalSection ==
    \A t \in Threads :
        pc[t] = "append" => \A i \in 1..Len(requests) : requests[i] <= now[t]

\* The timestamps of the window, oldest first.
Ascending(q) == \A i \in 1..(Len(q) - 1) : q[i] <= q[i + 1]

\* C15: the window is in ascending order in every state, and right after a
\* caller's eviction loop no remaining timestamp is older than a minute before
\* the `now` the loop used.
C15_WindowAscending ==
    /\ Ascending(requests)
    /\ \A t \in Threads :
          pc[t] = "minute" => \A i \in 1..Len(requests) : requests[i] >= now[t] - Minute

\* C16: a caller in the sleep of wait_if_needed does not hold the lock, and
\* can_make_request has released it on each of its exits: only a caller between
\* `with self.lock` and its return holds it.
C16_NoLockWhileSleeping ==
    \A t \in Threads :
        /\ pc[t] = "sleep" => lock # t
        /\ lock = t <=> pc[t] \in {"evict", "minute", "burst", "append"}

\* One caller sleeps between retries while the other is inside the lock.
C16_Witness ==
    \E t \in Threads, u \in Threads : pc[t] = "sleep" /\ lock = u /\ u # t /\ pc[u] = "append"

\* C19: the window never holds more than requests_per_minute timestamps; the
\* window grows only by the one timestamp an accepted call appends, and a
\* rejection leaves it as the eviction left it.
C19_WindowBounded ==
    /\ [](Len(requests) <= requests_per_minute)
    /\ [][Len(requests') > Len(requests) =>
             \E t \in Threads :
                 /\ pc[t] = "append" /\ pc'[t] = "done"
                 /\ requests' = Append(requests, now[t])
                 /\ recorded'[t] = recorded[t] + 1]_vars
    /\ [][\A t \in Threads :
             (pc[t] # "sleep" /\ pc'[t] = "sleep") =>
                 requests' = requests /\ recorded' = recorded]_vars

\* The window is full and a caller has been rejected.
C19_Witness ==
    /\ Len(requests) = requests_per_minute
    /\ \E t \in Threads : pc[t] = "sleep"

\* The sources search_person queries.
Sources == {"linkedin", "github", "scholar"}

\* C17: in a search the umbrella permit comes before any GET, each GET is issued
\* on a fresh permit of the same caller, one GET per source, and a search over
\* all its sources has recorded one timestamp more than it has sources.
C17_PermitBeforeEachGet ==
    /\ [](\A t \in Threads :
            stage[t] # "none" =>
                /\ gets[t] <= Cardinality(Sources)
                /\ gets[t] > 0 => recorded[t] >= gets[t] + 1
                /\ recorded[t] <= gets[t] + 2
                /\ stage[t] = "save" =>
                      /\ gets[t] = Cardinality(Sources)
                      /\ recorded[t] = 1 + Cardinality(Sources))
    /\ [][\A t \in Threads :
             gets'[t] > gets[t] =>
                 /\ gets'[t] = gets[t] + 1
                 /\ recorded[t] = gets[t] + 2
                 /\ recorded'[t] = recorded[t]]_vars

\* A search has queried its three sources on four recorded timestamps.
C17_Witness ==
    \E t \in Threads : stage[t] = "save" /\ gets[t] = 3 /\ recorded[t] = 4

\* C18: with saves overlapping, the write of a save that returns leaves under
\* its identifier the complete document of its record, so that after two
\* writers to one identifier the file is the last writer's document, never a
\* truncated or mixed one; and the write changes no other identifier's file.
C18_ConcurrentSavesSafe ==
    [][\A t \in Threads :
          (pc[t] = "dump" /\ pc'[t] = "called" /\ ret'[t].status = "returned") =>
              /\ files'[saving[t].person_id] = saving[t].doc
              /\ \A id \in DOMAIN files \ {saving[t].person_id} : files'[id] = files[id]]_vars

\* C6: the record search_person returns is the sanitized one: each of its
\* public_links passes is_safe_link and its last_updated is stamped.
C6_ReturnsSanitizedRecord ==
    \A t \in Threads :
        (SearchOver(t) /\ ret[t].status = "returned") =>
            /\ \A i \in 1..Len(LinksOrEmpty(ret[t].out)) :
                  is_safe_link(LinksOrEmpty(ret[t].out)[i]) = "True"
            /\ ret[t].out.last_updated # PyNone

\* C7: a failure of save_person_data inside search_person is not propagated:
\* the search does not end with the save's exception, it returns the record.
C7_SaveFailureNotPropagated ==
    \A t \in Threads :
        (SearchOver(t) /\ ret[t].status = "raised") => ret[t].out # "OSError"

IsSafeLinkReturned(t) ==
    pc[t] = "called" /\ ret[t].call = "is_safe_link" /\ ret[t].status = "returned"

\* C8: is_safe_link returns True exactly for the references whose lower-cased
\* text contains a claimed marker, "LINKEDIN.com/in/jdoe" among them, and the
\* call changes neither the store nor the limiter.
C8_SafeIffMarker ==
    /\ [](\A t \in Threads :
            IsSafeLinkReturned(t) =>
               /\ (ret[t].out = "True") <=> HasMarker(data[t].link)
               /\ data[t].link = link_LINKEDIN => ret[t].out = "True")
    /\ [][(\E t \in Threads : pc[t] = "idle" /\ ret'[t].call = "is_safe_link")
            => UNCHANGED <<files, requests, lock>>]_vars

\* is_safe_link("LINKEDIN.com/in/jdoe") has returned True.
C8_Witness ==
    \E t \in Threads :
        IsSafeLinkReturned(t) /\ data[t].link = link_LINKEDIN /\ ret[t].out = "True"

\* C9: is_safe_link never raises and returns False for the empty and the missing
\* reference, and sanitize_data (in save_person_data) completes on a list that
\* holds one.
C9_NeverRaises ==
    \A t \in Threads :
        /\ (pc[t] = "called" /\ ret[t].call = "is_safe_link") =>
              /\ ret[t].status = "returned"
              /\ data[t].link \in {link_empty, PyNone} => ret[t].out = "False"
        /\ (pc[t] = "called" /\ ret[t].call = "save_person_data"
               /\ ret[t].status = "raised") => ret[t].out # "AttributeError"

IdentityTriple(d) == <<d.name, d.professional_title, d.company>>

IdReturned(t) ==
    /\ pc[t] = "called"
    /\ ret[t].call \in {"generate_id", "save_person_data"}
    /\ ret[t].status = "returned"

\* C20: the string generate_id hashes is injective on identity triples: two
\* records whose (name, professional_title, company) differ, one field holding
\* '_' or the text "None" included, never get the same identifier.
C20_KeyInjective ==
    \A t \in Threads, u \in Threads :
        (IdReturned(t) /\ IdReturned(u)
            /\ IdentityTriple(data[t]) # IdentityTriple(data[u]))
        => ret[t].out # ret[u].out

\* C10: two records with equal (name, professional_title, company) get the same
\* identifier, whatever their education, public_links and last_updated; and
\* generate_id changes no state.
C10_IdFromTripleOnly ==
    /\ [](\A t \in Threads, u \in Threads :
            (IdReturned(t) /\ IdReturned(u)
               /\ IdentityTriple(data[t]) = IdentityTriple(data[u]))
            => ret[t].out = ret[u].out)
    /\ [][(\E t \in Threads : pc[t] = "idle" /\ ret'[t].call = "generate_id")
            => UNCHANGED <<files, requests, lock>>]_vars

\* Two callers hold the identifier of two different records with one triple.
C10_Witness ==
    \E t \in Threads, u \in Threads :
        /\ IdReturned(t) /\ IdReturned(u)
        /\ IdentityTriple(data[t]) = IdentityTriple(data[u])
        /\ data[t].public_links # data[u].public_links
        /\ data[t].last_updated # data[u].last_updated
        /\ ret[t].out = ret[u].out

====
